---- MODULE Spec2Model ----
(***************************************************************************)
(* HRSBench scorers: the size and the spatial relation scorers             *)
(* (src/src/compositions) and the counting scorer (src/src/hrsbench).      *)
(* A state holds the arguments of one scoring pass (the ground-truth list, *)
(* the prediction mapping, the level), the loop cursor, the accumulators   *)
(* of the pass, what the last iteration did, and the results __main__      *)
(* collects over the passes.  Floating-point values are kept as exact      *)
(* fractions <<numerator, denominator>>.                                   *)
(***************************************************************************)
EXTENDS Integers, Sequences, FiniteSets, TLC

VARIABLES
    scorer,            \* which program runs: "size", "spatial", "counting"
                       \* or "color"
    gt_data,           \* the ground-truth list (a sequence of records)
    pred_data,         \* the prediction mapping: image id (0-based) -> entry
    level,             \* the level argument of the pass
    img_id,            \* loop cursor: index of the next record (0-based)
    pc,                \* "loop", "returned" or "aborted" (uncaught exception)
    true_count,        \* cal_acc: images scored true (color: true_counter)
    total_count,       \* cal_acc: images attempted (color: total_num_objs)
    sorted_pred_objs,  \* cal_acc: the assignment built for the last image
    last,              \* what the last iteration did
    acc,               \* cal_acc's return value, as a fraction <<num, den>>
    totals,            \* calc_accuracy: [tp, fp, fn] running totals
    raw_pred,          \* load_pred's result: image id -> slots of detections
                       \* (color scorer: the files of the mask directory)
    images,            \* color scorer: the generated images, by image id
    all_acc,           \* __main__: the per-level metrics appended so far
    avg                \* __main__: the overall metric

vars == <<scorer, gt_data, pred_data, level, img_id, pc, true_count,
          total_count, sorted_pred_objs, last, acc, totals, raw_pred,
          images, all_acc, avg>>

----------------------------------------------------------------------------
(* Input universe.                                                         *)

NUM_LEVELS == 3
Levels == 1..NUM_LEVELS

\* Class labels the detector and the ground truth use; OtherCls is a label
\* that no ground-truth record of the universe names.
OtherCls == "cat"

\* Boxes <<xmin, ymin, xmax, ymax>>, origin top left, of areas 16, 2, 1 and
\* 2: the first contains the others, the second and third touch at a
\* corner, the second and fourth tie in area.
Boxes == { <<0, 0, 4, 4>>, <<1, 1, 2, 3>>, <<2, 2, 3, 3>>, <<2, 0, 4, 1>> }

\* Ground-truth object lists by arity, with and without a repeated class.
ObjLists ==
    { <<>>, <<"airplane">>,
      <<"airplane", "car">>, <<"car", "car">>,
      <<"airplane", "car", "horse">>, <<"airplane", "car", "car">>,
      <<"airplane", "car", "horse", "dog">>,
      <<"airplane", "car", "horse", "horse">> }

\* Relation labels handed to each scorer; "next to" is in no synonym set.
SizeLabels == {"larger", "bigger", "smaller", "next to"}
SpatialLabels ==
    {"on the right of", "right", "on the left of", "left",
     "above", "below", "next to"}

Labels(sc) == IF sc = "size" THEN SizeLabels ELSE SpatialLabels

\* convert_gt_format keeps the non-empty ones of relation1, relation2.
RelLists(sc) ==
    {<<>>} \cup {<<r>> : r \in Labels(sc)}
           \cup {<<r, q>> : r \in Labels(sc), q \in Labels(sc)}

Det(c, b) == [cls |-> c, cords |-> b]

\* load_pred: a detection is an array of five strings, the four box
\* coordinates and the class label; a slot is a list of detections.
NumStr(n) ==
    CASE n = 0 -> "0" [] n = 1 -> "1" [] n = 2 -> "2"
      [] n = 3 -> "3" [] n = 4 -> "4"
RawDet(c, b) == <<NumStr(b[1]), NumStr(b[2]), NumStr(b[3]), NumStr(b[4]), c>>

\* float(coord) on the strings above.
float(coord) == CHOOSE n \in 0..4 : NumStr(n) = coord

\* convert_pred_format on the slots v of one image: a slot with a non-empty
\* list gives the first item's class (last field) and box (first four
\* fields as numbers); other slots give nothing.
convert_slots(v) ==
    LET kept == SelectSeq(v, LAMBDA v2 : Len(v2) > 0)
    IN [k \in 1..Len(kept) |->
           LET item == kept[k][1]
           IN [cls |-> item[Len(item)],
               cords |-> [i \in 1..4 |-> float(item[i])]]]

convert_pred_format(pred) ==
    [img \in DOMAIN pred |-> convert_slots(pred[img])]

\* Every object detected once, in ground-truth order, with any boxes.
RECURSIVE Complete(_)
Complete(objs) ==
    IF Len(objs) = 0 THEN {<<>>}
    ELSE {Append(p, Det(objs[Len(objs)], b)) :
             p \in Complete(SubSeq(objs, 1, Len(objs) - 1)), b \in Boxes}

\* One fixed complete entry, the boxes cycling through a fixed order.
BoxAt(i) == CASE i % 3 = 1 -> <<0, 0, 4, 4>>
              [] i % 3 = 2 -> <<1, 1, 2, 3>>
              [] OTHER     -> <<2, 2, 3, 3>>
Fixed(objs) == [i \in 1..Len(objs) |-> Det(objs[i], BoxAt(i))]

Drop(s, i) == SubSeq(s, 1, i - 1) \o SubSeq(s, i + 1, Len(s))

\* The fixed entry with one slot missing, or one slot detected as another
\* class.
Degraded(objs) ==
    {Drop(Fixed(objs), i) : i \in 1..Len(objs)}
    \cup {[Fixed(objs) EXCEPT ![i] = Det(OtherCls, BoxAt(i))] :
             i \in 1..Len(objs)}

Entries(objs) == Complete(objs) \cup Degraded(objs) \cup {<<>>}

\* The slots the converted entry e comes from when every slot holds one
\* detection.
Lift(e) == [k \in 1..Len(e) |-> << RawDet(e[k].cls, e[k].cords) >>]

InsertAt(s, i, x) == SubSeq(s, 1, i - 1) \o <<x>> \o SubSeq(s, i, Len(s))

\* The fixed entry's slots with an empty slot among them, or with a second
\* detection in one slot.
Noisy(objs) ==
    {InsertAt(Lift(Fixed(objs)), i, <<>>) : i \in 1..(Len(objs) + 1)}
    \cup {[Lift(Fixed(objs)) EXCEPT
              ![i] = Append(@, RawDet(OtherCls, <<0, 0, 4, 4>>))] :
             i \in 1..Len(objs)}

RawEntriesOf(objs) == {Lift(e) : e \in Entries(objs)} \cup Noisy(objs)

----------------------------------------------------------------------------
(* Geometric predicates.                                                   *)

_get_box_area(obj) == (obj[3] - obj[1]) * (obj[4] - obj[2])

_check_large(obj_1, obj_2) == _get_box_area(obj_1) > _get_box_area(obj_2)

\* Mutant: a tie in area counts as smaller.
_check_small_or_equal(obj_1, obj_2) ==
    _get_box_area(obj_1) <= _get_box_area(obj_2)

_check_small(obj_1, obj_2) == _get_box_area(obj_1) < _get_box_area(obj_2)

_check_right(obj_1, obj_2) == obj_1[3] > obj_2[3]

_check_left(obj_1, obj_2) == obj_1[1] < obj_2[1]

\* Mutant: above compares the upper edges only.
_check_above_ymin_only(obj_1, obj_2) == obj_1[2] < obj_2[2]

_check_above(obj_1, obj_2) == (obj_1[2] < obj_2[2]) \/ (obj_1[4] < obj_2[4])

\* Mutant: below compares the lower edges only.
_check_below_ymax_only(obj_1, obj_2) == obj_1[4] > obj_2[4]

_check_below(obj_1, obj_2) == (obj_1[4] > obj_2[4]) \/ (obj_1[2] > obj_2[2])

\* Mutant: only the first horizontal and the first vertical combination
\* are tested.
_check_between_one_way(obj_1, obj_2, obj_3) ==
    IF _check_right(obj_1, obj_2) /\ _check_left(obj_1, obj_3) THEN TRUE
    ELSE IF _check_below(obj_1, obj_2) /\ _check_above(obj_1, obj_3) THEN TRUE
    ELSE FALSE

_check_between(obj_1, obj_2, obj_3) ==
    IF _check_right(obj_1, obj_2) /\ _check_left(obj_1, obj_3) THEN TRUE
    ELSE IF _check_left(obj_1, obj_2) /\ _check_right(obj_1, obj_3) THEN TRUE
    ELSE IF _check_below(obj_1, obj_2) /\ _check_above(obj_1, obj_3) THEN TRUE
    ELSE IF _check_above(obj_1, obj_2) /\ _check_below(obj_1, obj_3) THEN TRUE
    ELSE FALSE

----------------------------------------------------------------------------
(* Class-conditioned matcher.                                              *)

InList(x, list) == \E i \in 1..Len(list) : list[i] = x

\* Mutant: the last position of x in place of the first.
ListIndexLast(list, x) ==
    CHOOSE i \in 0..(Len(list) - 1) :
        /\ list[i + 1] = x
        /\ \A j \in (i + 1)..(Len(list) - 1) : list[j + 1] # x

\* list.index(x): the first position of x, 0-based.
ListIndex(list, x) ==
    CHOOSE i \in 0..(Len(list) - 1) :
        /\ list[i + 1] = x
        /\ \A j \in 0..(i - 1) : list[j + 1] # x

\* Mutant: a key that is present keeps its value.
PutIfAbsent(f, k, v) ==
    [x \in (DOMAIN f) \cup {k} |-> IF x \in DOMAIN f THEN f[x] ELSE v]

Put(f, k, v) == [x \in (DOMAIN f) \cup {k} |-> IF x = k THEN v ELSE f[x]]

RECURSIVE SortLoop(_, _, _, _)
SortLoop(pred_objs, gt_objs, i, sorted) ==
    IF i > Len(pred_objs) THEN sorted
    ELSE SortLoop(pred_objs, gt_objs, i + 1,
                  IF InList(pred_objs[i].cls, gt_objs)
                  THEN Put(sorted, ListIndex(gt_objs, pred_objs[i].cls),
                           pred_objs[i])
                  ELSE sorted)

_sort_pred_obj(pred_objs, gt_objs) == SortLoop(pred_objs, gt_objs, 1, <<>>)

----------------------------------------------------------------------------
(* Evaluation of one predicate on the assignment.  A subscript of          *)
(* sorted_pred_objs that is no key raises KeyError; `and` evaluates its    *)
(* right operand only when the left one is true.                           *)

\* The predicate of the given name applied to two boxes.
Apply(check, obj_1, obj_2) ==
    CASE check = "_check_large" -> _check_large(obj_1, obj_2)
      [] check = "_check_small" -> _check_small(obj_1, obj_2)
      [] check = "_check_right" -> _check_right(obj_1, obj_2)
      [] check = "_check_left"  -> _check_left(obj_1, obj_2)
      [] check = "_check_above" -> _check_above(obj_1, obj_2)
      [] check = "_check_below" -> _check_below(obj_1, obj_2)

Chk(check, s, i, j) ==
    IF i \in DOMAIN s /\ j \in DOMAIN s
    THEN (IF Apply(check, s[i].cords, s[j].cords) THEN "T" ELSE "F")
    ELSE "KeyError"

ChkBetween(s, i, j, k) ==
    IF i \in DOMAIN s /\ j \in DOMAIN s /\ k \in DOMAIN s
    THEN (IF _check_between(s[i].cords, s[j].cords, s[k].cords)
          THEN "T" ELSE "F")
    ELSE "KeyError"

AndChk(r1, r2) == IF r1 = "T" THEN r2 ELSE r1

\* What one iteration's arity dispatch ends with: res is "true" (true_count
\* is incremented), "false", or the exception that leaves cal_acc.
Out(r, w) == [res |-> r, warned |-> w]

Fin(r) == Out(IF r = "T" THEN "true" ELSE IF r = "F" THEN "false" ELSE r,
              FALSE)

----------------------------------------------------------------------------
(* Size scorer: the arity dispatch of cal_acc.                             *)

bigger_words == {"larger", "bigger"}
smaller_words == {"smaller"}

\* Mutant: the easy branch compares object 1 against object 0.
size_easy_swapped(sample, s) ==
    LET rel == sample.relations IN
    IF Len(rel) = 0 THEN Out("IndexError", FALSE)
    ELSE IF rel[1] \in bigger_words THEN Fin(Chk("_check_large", s, 1, 0))
    ELSE IF rel[1] \in smaller_words THEN Fin(Chk("_check_small", s, 1, 0))
    ELSE Out("false", TRUE)

size_easy(sample, s) ==
    LET rel == sample.relations IN
    IF Len(rel) = 0 THEN Out("IndexError", FALSE)
    ELSE IF rel[1] \in bigger_words THEN Fin(Chk("_check_large", s, 0, 1))
    ELSE IF rel[1] \in smaller_words THEN Fin(Chk("_check_small", s, 0, 1))
    ELSE Out("false", TRUE)

\* The second relation of the medium and hard branches, object 0 against
\* object k.
size_second(rel, s, k) ==
    IF Len(rel) > 1
    THEN IF rel[2] \in bigger_words THEN Fin(Chk("_check_large", s, 0, k))
         ELSE IF rel[2] \in smaller_words
              THEN Fin(Chk("_check_small", s, 0, k))
              ELSE Out("false", FALSE)
    ELSE Out("false", FALSE)

size_medium_gate(rel, s) ==
    IF rel[1] \in bigger_words THEN Chk("_check_large", s, 0, 1)
    ELSE IF rel[1] \in smaller_words THEN Chk("_check_small", s, 0, 1)
    ELSE "T"

size_medium(sample, s) ==
    LET rel == sample.relations IN
    IF Len(rel) = 0 THEN Out("IndexError", FALSE)
    ELSE IF size_medium_gate(rel, s) # "T" THEN Fin(size_medium_gate(rel, s))
    ELSE size_second(rel, s, 2)

size_hard_gate(rel, s) ==
    IF rel[1] \in bigger_words
    THEN AndChk(Chk("_check_large", s, 0, 1), Chk("_check_large", s, 0, 2))
    ELSE IF rel[1] \in smaller_words
    THEN AndChk(Chk("_check_small", s, 0, 1), Chk("_check_small", s, 0, 2))
    ELSE "T"

size_hard(sample, s) ==
    LET rel == sample.relations IN
    IF Len(rel) = 0 THEN Out("IndexError", FALSE)
    ELSE IF size_hard_gate(rel, s) # "T" THEN Fin(size_hard_gate(rel, s))
    ELSE size_second(rel, s, 3)

\* Mutant: a record of fewer than 2 objects takes the easy branch.
size_dispatch_upto2(sample, s) ==
    IF Len(sample.objs) <= 2 THEN size_easy(sample, s)
    ELSE IF Len(sample.objs) = 3 THEN size_medium(sample, s)
    ELSE IF Len(sample.objs) = 4 THEN size_hard(sample, s)
    ELSE Out("false", TRUE)

size_dispatch(sample, s) ==
    IF Len(sample.objs) = 2 THEN size_easy(sample, s)
    ELSE IF Len(sample.objs) = 3 THEN size_medium(sample, s)
    ELSE IF Len(sample.objs) = 4 THEN size_hard(sample, s)
    ELSE Out("false", TRUE)

----------------------------------------------------------------------------
(* Spatial scorer: the arity dispatch of cal_acc.                          *)

above_spatial_words == {"on", "above", "over", "top"}
below_spatial_words == {"below", "beneath", "under", "underneath"}

\* The if/elif chain over one relation label.  The easy branch and the
\* first relation of the medium branch also accept "right" and "left";
\* the other chains compare with the long form only.
Direction(label, short) ==
    IF label = "on the right of" \/ (short /\ label = "right") THEN "right"
    ELSE IF label = "on the left of" \/ (short /\ label = "left") THEN "left"
    ELSE IF label \in above_spatial_words THEN "above"
    ELSE IF label \in below_spatial_words THEN "below"
    ELSE "none"

DirChk(dir, s, i, j) ==
    CASE dir = "right" -> Chk("_check_right", s, i, j)
      [] dir = "left"  -> Chk("_check_left", s, i, j)
      [] dir = "above" -> Chk("_check_above", s, i, j)
      [] dir = "below" -> Chk("_check_below", s, i, j)

spatial_easy(sample, s) ==
    LET rel == sample.relations IN
    IF Len(rel) = 0 THEN Out("IndexError", FALSE)
    ELSE IF Direction(rel[1], TRUE) = "none" THEN Out("false", FALSE)
    ELSE Fin(DirChk(Direction(rel[1], TRUE), s, 0, 1))

spatial_medium_gate(rel, s) ==
    IF Direction(rel[1], TRUE) = "none" THEN "T"
    ELSE DirChk(Direction(rel[1], TRUE), s, 0, 1)

spatial_medium_second(rel, s) ==
    IF Direction(rel[2], FALSE) = "none" THEN Out("false", FALSE)
    ELSE Fin(DirChk(Direction(rel[2], FALSE), s, 0, 2))

spatial_medium(sample, s) ==
    LET rel == sample.relations IN
    IF Len(rel) = 2
    THEN IF spatial_medium_gate(rel, s) # "T"
         THEN Fin(spatial_medium_gate(rel, s))
         ELSE spatial_medium_second(rel, s)
    ELSE Fin(ChkBetween(s, 0, 1, 2))

spatial_hard_gate(rel, s) ==
    IF Direction(rel[1], FALSE) = "none" THEN "T"
    ELSE AndChk(DirChk(Direction(rel[1], FALSE), s, 0, 2),
                DirChk(Direction(rel[1], FALSE), s, 1, 2))

spatial_hard_second(rel, s) ==
    IF Direction(rel[2], FALSE) = "none" THEN Out("false", FALSE)
    ELSE Fin(AndChk(DirChk(Direction(rel[2], FALSE), s, 0, 3),
                    DirChk(Direction(rel[2], FALSE), s, 1, 3)))

\* Mutant: the hard branch checks between for object 0 only.
spatial_hard_one_between(sample, s) ==
    LET rel == sample.relations IN
    IF Len(rel) = 2
    THEN IF spatial_hard_gate(rel, s) # "T"
         THEN Fin(spatial_hard_gate(rel, s))
         ELSE spatial_hard_second(rel, s)
    ELSE Fin(ChkBetween(s, 0, 2, 3))

spatial_hard(sample, s) ==
    LET rel == sample.relations IN
    IF Len(rel) = 2
    THEN IF spatial_hard_gate(rel, s) # "T"
         THEN Fin(spatial_hard_gate(rel, s))
         ELSE spatial_hard_second(rel, s)
    ELSE Fin(AndChk(ChkBetween(s, 0, 2, 3), ChkBetween(s, 1, 2, 3)))

spatial_dispatch(sample, s) ==
    IF Len(sample.objs) = 2 THEN spatial_easy(sample, s)
    ELSE IF Len(sample.objs) = 3 THEN spatial_medium(sample, s)
    ELSE IF Len(sample.objs) = 4 THEN spatial_hard(sample, s)
    ELSE Out("false", TRUE)

----------------------------------------------------------------------------
(* cal_acc of the size and spatial scorers: one iteration of the loop over *)
(* the ground-truth list, and the return.                                  *)

\* Mutant: the class check looks at the first ground-truth class only.
miss_flag_first_only(sample, entry) ==
    /\ Len(sample.objs) > 0
    /\ ~(\E k \in 1..Len(entry) : entry[k].cls = sample.objs[1])

\* The class check: some ground-truth class is not among the predicted
\* classes of the image.
miss_flag(sample, entry) ==
    \E i \in 1..Len(sample.objs) :
        ~(\E k \in 1..Len(entry) : entry[k].cls = sample.objs[i])

dispatch(sc, sample, s) ==
    IF sc = "size" THEN size_dispatch(sample, s)
    ELSE spatial_dispatch(sample, s)

\* Mutant: a record without a prediction entry is not counted as attempted.
cal_acc_body_skips_missing(sc, sample, preds, id, lvl) ==
    IF sample.level # lvl
    THEN [stage |-> "level", counted |-> FALSE, built |-> FALSE,
          sorted |-> <<>>, out |-> Out("false", FALSE)]
    ELSE IF id \notin DOMAIN preds
    THEN [stage |-> "no_pred", counted |-> FALSE, built |-> FALSE,
          sorted |-> <<>>, out |-> Out("false", FALSE)]
    ELSE IF miss_flag(sample, preds[id])
    THEN [stage |-> "miss", counted |-> TRUE, built |-> FALSE,
          sorted |-> <<>>, out |-> Out("false", FALSE)]
    ELSE [stage |-> "dispatch", counted |-> TRUE, built |-> TRUE,
          sorted |-> _sort_pred_obj(preds[id], sample.objs),
          out |-> dispatch(sc, sample,
                           _sort_pred_obj(preds[id], sample.objs))]

\* The loop body for record `id`: where it ended (stage), whether
\* total_count was incremented, the assignment it built and the outcome.
cal_acc_body(sc, sample, preds, id, lvl) ==
    IF sample.level # lvl
    THEN [stage |-> "level", counted |-> FALSE, built |-> FALSE,
          sorted |-> <<>>, out |-> Out("false", FALSE)]
    ELSE IF id \notin DOMAIN preds
    THEN [stage |-> "no_pred", counted |-> TRUE, built |-> FALSE,
          sorted |-> <<>>, out |-> Out("false", FALSE)]
    ELSE IF miss_flag(sample, preds[id])
    THEN [stage |-> "miss", counted |-> TRUE, built |-> FALSE,
          sorted |-> <<>>, out |-> Out("false", FALSE)]
    ELSE [stage |-> "dispatch", counted |-> TRUE, built |-> TRUE,
          sorted |-> _sort_pred_obj(preds[id], sample.objs),
          out |-> dispatch(sc, sample,
                           _sort_pred_obj(preds[id], sample.objs))]

Raised(res) == res \in {"KeyError", "IndexError"}

NoLast == [img |-> -1, stage |-> "none", res |-> "false", warned |-> FALSE]

ScoreRecord ==
    /\ scorer \in {"size", "spatial"}
    /\ pc = "loop"
    /\ img_id < Len(gt_data)
    /\ LET b == cal_acc_body(scorer, gt_data[img_id + 1], pred_data,
                             img_id, level)
       IN /\ total_count' = total_count + (IF b.counted THEN 1 ELSE 0)
          /\ true_count' = true_count + (IF b.out.res = "true" THEN 1 ELSE 0)
          /\ sorted_pred_objs' = IF b.built THEN b.sorted
                                 ELSE sorted_pred_objs
          /\ pc' = IF Raised(b.out.res) THEN "aborted" ELSE "loop"
          /\ img_id' = IF Raised(b.out.res) THEN img_id ELSE img_id + 1
          /\ last' = [img |-> img_id, stage |-> b.stage, res |-> b.out.res,
                      warned |-> b.out.warned]
    /\ UNCHANGED <<scorer, gt_data, pred_data, level, acc, totals, raw_pred,
                   images, all_acc, avg>>

\* 100 * (true_count / total_count) if total_count > 0 else 0.0
Accuracy(tc, tot) == IF tot > 0 THEN <<100 * tc, tot>> ELSE <<0, 1>>

Return ==
    /\ scorer \in {"size", "spatial"}
    /\ pc = "loop"
    /\ img_id = Len(gt_data)
    /\ acc' = Accuracy(true_count, total_count)
    /\ pc' = "returned"
    /\ UNCHANGED <<scorer, gt_data, pred_data, level, img_id, true_count,
                   total_count, sorted_pred_objs, last, totals, raw_pred,
                   images, all_acc, avg>>

\* The level convert_gt_format gives a record that has no "level" key.
DefaultLevel(sc) == IF sc = "size" THEN -1 ELSE 0

\* convert_gt_format: at most 4 objects and 2 relations, empty fields
\* dropped, the level copied or defaulted.
convert_gt_format(sc) ==
    {[objs |-> o, relations |-> r, level |-> l] :
        o \in ObjLists, r \in RelLists(sc),
        l \in Levels \cup {DefaultLevel(sc)}}

NoEntry == <<>>
OneEntry(e) == [i \in {0} |-> e]

\* One-record data sets, loaded and converted by __main__.  A pass of the
\* record's own level sees every prediction entry of the universe; a pass
\* of another level sees the record with no entry or with the fixed one.
Init ==
    /\ scorer \in {"size", "spatial"}
    /\ level \in Levels
    /\ \E g \in convert_gt_format(scorer) :
          /\ gt_data = << g >>
          /\ IF g.level = level
             THEN raw_pred \in
                      {NoEntry} \cup {OneEntry(v) : v \in RawEntriesOf(g.objs)}
             ELSE raw_pred \in {NoEntry, OneEntry(Lift(Fixed(g.objs)))}
    /\ pred_data = convert_pred_format(raw_pred)
    /\ img_id = 0
    /\ pc = "loop"
    /\ true_count = 0
    /\ total_count = 0
    /\ sorted_pred_objs = <<>>
    /\ last = NoLast
    /\ acc = <<0, 1>>
    /\ totals = [tp |-> 0, fp |-> 0, fn |-> 0]
    /\ images = <<>>
    /\ all_acc = <<>>
    /\ avg = <<0, 1>>

Next == ScoreRecord \/ Return

Spec == Init /\ [][Next]_vars

----------------------------------------------------------------------------
(* Counting scorer: compare_entry and the loop of calc_accuracy.  The      *)
(* counting scorer reads the raw prediction entry: a slot is the list of   *)
(* detections the detector put there, and pred[0][-1] is the class of the  *)
(* first one.                                                              *)

MaxCount == 3      \* largest expected count of a class
MaxSlots == 5      \* most slots of one raw prediction entry

CountClasses == {"cup", "dog"}

\* Ground-truth records of the counting task; expected_obj2 is "" when the
\* prompt names one class only.
CountRecords ==
    {[expected_obj1 |-> o1, expected_n1 |-> n1,
      expected_obj2 |-> o2, expected_n2 |-> n2, level |-> l] :
        o1 \in CountClasses, n1 \in 0..MaxCount,
        o2 \in CountClasses \cup {""}, n2 \in 0..MaxCount, l \in {1}}

RawSlot(c) == << RawDet(c, <<0, 0, 4, 4>>) >>

\* Raw entries whose slots hold one detection each, entries with a slot in
\* which the detector found nothing, and entries of one slot with two
\* detections.
RawEntries ==
    UNION {[1..n -> {RawSlot(c) : c \in CountClasses \cup {OtherCls}}] :
              n \in 0..MaxSlots}
    \cup {<< <<>> >>}
    \cup {<<RawSlot(c), <<>>, RawSlot(c)>> : c \in CountClasses}
    \cup {<< RawSlot(c) \o RawSlot(d) >> : c, d \in CountClasses}

\* Mutant: a slot of a class that is not expected is counted with the
\* first class.
RECURSIVE CountLoopCountsOthers(_, _, _, _, _, _)
CountLoopCountsOthers(pred_entry, obj1, obj2, k, obj1_pred, obj2_pred) ==
    IF k > Len(pred_entry)
    THEN [obj1_pred |-> obj1_pred, obj2_pred |-> obj2_pred, err |-> FALSE]
    ELSE IF Len(pred_entry[k]) = 0
    THEN [obj1_pred |-> obj1_pred, obj2_pred |-> obj2_pred, err |-> TRUE]
    ELSE IF obj2 # "" /\ pred_entry[k][1][Len(pred_entry[k][1])] = obj2
    THEN CountLoopCountsOthers(pred_entry, obj1, obj2, k + 1, obj1_pred,
                               obj2_pred + 1)
    ELSE CountLoopCountsOthers(pred_entry, obj1, obj2, k + 1, obj1_pred + 1,
                               obj2_pred)

\* The loop over pred_entry.values(): the two per-class counters, or the
\* IndexError of pred[0] on an empty slot.
RECURSIVE CountLoop(_, _, _, _, _, _)
CountLoop(pred_entry, obj1, obj2, k, obj1_pred, obj2_pred) ==
    IF k > Len(pred_entry)
    THEN [obj1_pred |-> obj1_pred, obj2_pred |-> obj2_pred, err |-> FALSE]
    ELSE IF Len(pred_entry[k]) = 0
    THEN [obj1_pred |-> obj1_pred, obj2_pred |-> obj2_pred, err |-> TRUE]
    ELSE IF pred_entry[k][1][Len(pred_entry[k][1])] = obj1
    THEN CountLoop(pred_entry, obj1, obj2, k + 1, obj1_pred + 1, obj2_pred)
    ELSE IF obj2 # "" /\ pred_entry[k][1][Len(pred_entry[k][1])] = obj2
    THEN CountLoop(pred_entry, obj1, obj2, k + 1, obj1_pred, obj2_pred + 1)
    ELSE CountLoop(pred_entry, obj1, obj2, k + 1, obj1_pred, obj2_pred)

Min(a, b) == IF a < b THEN a ELSE b
Max(a, b) == IF a > b THEN a ELSE b

\* Mutant: surplus detections of object 1 are not counted as false
\* positives.
compare_entry_no_fp1(gt_entry, pred_entry) ==
    LET obj1 == gt_entry.expected_obj1
        n1   == gt_entry.expected_n1
        obj2 == gt_entry.expected_obj2
        n2   == gt_entry.expected_n2
        c    == CountLoop(pred_entry, obj1, obj2, 1, 0, 0)
        two  == obj2 # "" /\ n2 > 0
    IN [tp  |-> Min(n1, c.obj1_pred)
                + (IF two THEN Min(n2, c.obj2_pred) ELSE 0),
        fp  |-> (IF two THEN Max(0, c.obj2_pred - n2) ELSE 0),
        fn  |-> Max(0, n1 - c.obj1_pred)
                + (IF two THEN Max(0, n2 - c.obj2_pred) ELSE 0),
        err |-> c.err]

compare_entry(gt_entry, pred_entry) ==
    LET obj1 == gt_entry.expected_obj1
        n1   == gt_entry.expected_n1
        obj2 == gt_entry.expected_obj2
        n2   == gt_entry.expected_n2
        c    == CountLoop(pred_entry, obj1, obj2, 1, 0, 0)
        two  == obj2 # "" /\ n2 > 0
    IN [tp  |-> Min(n1, c.obj1_pred)
                + (IF two THEN Min(n2, c.obj2_pred) ELSE 0),
        fp  |-> Max(0, c.obj1_pred - n1)
                + (IF two THEN Max(0, c.obj2_pred - n2) ELSE 0),
        fn  |-> Max(0, n1 - c.obj1_pred)
                + (IF two THEN Max(0, n2 - c.obj2_pred) ELSE 0),
        err |-> c.err]

\* total / denominator if denominator > 0 else 0.0, as a fraction.
Ratio(num, den) == IF den > 0 THEN <<num, den>> ELSE <<0, 1>>

\* Mutant: the totals keep the counts of the last image only.
accumulate_last_only(tot, r) == [tp |-> r.tp, fp |-> r.fp, fn |-> r.fn]

\* total_true_pos += true_pos, and likewise the other two.
accumulate(tot, r) ==
    [tp |-> tot.tp + r.tp, fp |-> tot.fp + r.fp, fn |-> tot.fn + r.fn]

\* Mutant: the expected objects of a record without a prediction entry are
\* counted as false negatives.
CountRecordMissingAsFN ==
    /\ scorer = "counting"
    /\ pc = "loop"
    /\ img_id < Len(gt_data)
    /\ LET gt_entry == gt_data[img_id + 1] IN
       IF gt_entry.level # level
       THEN /\ last' = [img |-> img_id, stage |-> "level", res |-> "false",
                        warned |-> FALSE]
            /\ UNCHANGED <<totals, pc>>
            /\ img_id' = img_id + 1
       ELSE IF img_id \notin DOMAIN pred_data
       THEN /\ last' = [img |-> img_id, stage |-> "no_pred", res |-> "false",
                        warned |-> TRUE]
            /\ totals' = [totals EXCEPT !.fn = @ + gt_entry.expected_n1
                                                 + gt_entry.expected_n2]
            /\ UNCHANGED pc
            /\ img_id' = img_id + 1
       ELSE LET r == compare_entry(gt_entry, pred_data[img_id]) IN
            IF r.err
            THEN /\ last' = [img |-> img_id, stage |-> "compared",
                             res |-> "IndexError", warned |-> FALSE]
                 /\ pc' = "aborted"
                 /\ UNCHANGED <<totals, img_id>>
            ELSE /\ last' = [img |-> img_id, stage |-> "compared",
                             res |-> "false", warned |-> FALSE]
                 /\ totals' = accumulate(totals, r)
                 /\ img_id' = img_id + 1
                 /\ UNCHANGED pc
    /\ UNCHANGED <<scorer, gt_data, pred_data, level, true_count,
                   total_count, sorted_pred_objs, acc, raw_pred, images,
                   all_acc, avg>>

CountRecord ==
    /\ scorer = "counting"
    /\ pc = "loop"
    /\ img_id < Len(gt_data)
    /\ LET gt_entry == gt_data[img_id + 1] IN
       IF gt_entry.level # level
       THEN /\ last' = [img |-> img_id, stage |-> "level", res |-> "false",
                        warned |-> FALSE]
            /\ UNCHANGED <<totals, pc>>
            /\ img_id' = img_id + 1
       ELSE IF img_id \notin DOMAIN pred_data
       THEN /\ last' = [img |-> img_id, stage |-> "no_pred", res |-> "false",
                        warned |-> TRUE]
            /\ UNCHANGED <<totals, pc>>
            /\ img_id' = img_id + 1
       ELSE LET r == compare_entry(gt_entry, pred_data[img_id]) IN
            IF r.err
            THEN /\ last' = [img |-> img_id, stage |-> "compared",
                             res |-> "IndexError", warned |-> FALSE]
                 /\ pc' = "aborted"
                 /\ UNCHANGED <<totals, img_id>>
            ELSE /\ last' = [img |-> img_id, stage |-> "compared",
                             res |-> "false", warned |-> FALSE]
                 /\ totals' = accumulate(totals, r)
                 /\ img_id' = img_id + 1
                 /\ UNCHANGED pc
    /\ UNCHANGED <<scorer, gt_data, pred_data, level, true_count,
                   total_count, sorted_pred_objs, acc, raw_pred, images,
                   all_acc, avg>>

\* calc_accuracy returns (precision, recall).
CountReturn ==
    /\ scorer = "counting"
    /\ pc = "loop"
    /\ img_id = Len(gt_data)
    /\ acc' = << Ratio(totals.tp, totals.tp + totals.fp),
                 Ratio(totals.tp, totals.tp + totals.fn) >>
    /\ pc' = "returned"
    /\ UNCHANGED <<scorer, gt_data, pred_data, level, img_id, true_count,
                   total_count, sorted_pred_objs, last, totals, raw_pred,
                   images, all_acc, avg>>

InitCount ==
    /\ scorer = "counting"
    /\ \E g \in CountRecords :
          /\ gt_data = <<g>>
          /\ \/ /\ level = g.level
                /\ raw_pred \in {NoEntry} \cup {OneEntry(e) : e \in RawEntries}
             \/ /\ level \in Levels \ {g.level}
                /\ raw_pred \in {NoEntry, OneEntry(<<RawSlot(g.expected_obj1)>>)}
    /\ pred_data = raw_pred
    /\ img_id = 0
    /\ pc = "loop"
    /\ true_count = 0
    /\ total_count = 0
    /\ sorted_pred_objs = <<>>
    /\ last = NoLast
    /\ acc = <<0, 1>>
    /\ totals = [tp |-> 0, fp |-> 0, fn |-> 0]
    /\ images = <<>>
    /\ all_acc = <<>>
    /\ avg = <<0, 1>>

NextCount == CountRecord \/ CountReturn

SpecCount == InitCount /\ [][NextCount]_vars

----------------------------------------------------------------------------
(* Color scorer (src/src/colors/hue_based_color_classifier.py).  File      *)
(* names are sequences of tokens, so that `a in b` is the search for a     *)
(* contiguous run of tokens; an image is the sequence of its pixels' hues  *)
(* (channel 0 of the HSV frame) and a mask the sequence of its gray        *)
(* values.                                                                 *)

\* A fraction below the integer c; every comparison with 0/0 (nan) fails.
HueBelow(hue_value, c) == hue_value[2] > 0 /\ hue_value[1] < c * hue_value[2]

\* Mutant: the orange band ends at 21 instead of 22.
detect_color_narrow_orange(hue_value) ==
    IF HueBelow(hue_value, 15) THEN "red"
    ELSE IF HueBelow(hue_value, 21) THEN "orange"
    ELSE IF HueBelow(hue_value, 39) THEN "yellow"
    ELSE IF HueBelow(hue_value, 78) THEN "green"
    ELSE IF HueBelow(hue_value, 131) THEN "blue"
    ELSE "red"

detect_color_hue_based(hue_value) ==
    IF HueBelow(hue_value, 15) THEN "red"
    ELSE IF HueBelow(hue_value, 22) THEN "orange"
    ELSE IF HueBelow(hue_value, 39) THEN "yellow"
    ELSE IF HueBelow(hue_value, 78) THEN "green"
    ELSE IF HueBelow(hue_value, 131) THEN "blue"
    ELSE "red"

coco_class_idx(obj) ==
    CASE obj = "person" -> 0
      [] obj = "car" -> 2
      [] obj = "dog" -> 16

\* int(s): the strings that parse, and their values.
IsInt(s) == s \in {"0", "2", "16"}
IntOf(s) == CASE s = "0" -> 0 [] s = "2" -> 2 [] s = "16" -> 16

\* prompt.replace(" ", "_")
Underscored(prompt) ==
    [k \in 1..Len(prompt) |-> IF prompt[k] = " " THEN "_" ELSE prompt[k]]

\* str(idx) + "_" + str(level) + "_" + prompt.replace(" ", "_")
ImgName(idx, lvl, prompt) ==
    <<NumStr(idx), "_", NumStr(lvl), "_">> \o Underscored(prompt)

\* a in b
IsInfix(a, b) ==
    \E i \in 0..(Len(b) - Len(a)) : SubSeq(b, i + 1, i + Len(a)) = a

\* load_pred: for every record, the mask names that contain its image name.
load_pred(pred_masks_names, gt) ==
    [idx \in 0..(Len(gt) - 1) |->
        SelectSeq(pred_masks_names,
                  LAMBDA n : IsInfix(ImgName(idx, gt[idx + 1].level,
                                             gt[idx + 1].prompt), n))]

\* img_masks_name.split("_")[-1].split(".")[0] of a name that ends with
\* "_", class token, ".png".
ClassToken(name) == name[Len(name) - 1]

\* The masks of the image whose class id parses and equals gt_obj_id.
MasksPerClass(names, gt_obj_id) ==
    SelectSeq(names, LAMBDA n : /\ IsInt(ClassToken(n))
                                /\ IntOf(ClassToken(n)) = gt_obj_id)

\* mask / 255.0 cast to uint8.
Mask01(px) == [i \in 1..Len(px) |-> px[i] \div 255]

RECURSIVE SeqSum(_)
SeqSum(s) == IF Len(s) = 0 THEN 0 ELSE s[1] + SeqSum(Tail(s))

\* Mutant: the sum is divided by the number of pixels of the image.
avg_hue_all_pixels(hsv_frame, px) ==
    LET hsv_frame_masked ==
            [i \in 1..Len(hsv_frame) |-> hsv_frame[i] * Mask01(px)[i]]
    IN <<SeqSum(hsv_frame_masked), Len(hsv_frame)>>

\* hsv_frame_masked.sum() / np.count_nonzero(hsv_frame_masked), a fraction;
\* 0/0 is numpy's nan.
avg_hue(hsv_frame, px) ==
    LET hsv_frame_masked ==
            [i \in 1..Len(hsv_frame) |-> hsv_frame[i] * Mask01(px)[i]]
    IN <<SeqSum(hsv_frame_masked),
         Cardinality({i \in 1..Len(hsv_frame) : hsv_frame_masked[i] # 0})>>

\* cv2.imread of a mask name: the file of the directory with that name.
MaskFile(dir, name) == dir[CHOOSE k \in 1..Len(dir) : dir[k].name = name]

Checked(name, loaded, hue, color) ==
    [name |-> name, loaded |-> loaded, avg_hue |-> hue, color |-> color]

\* Mutant: the loop over the masks does not stop at the first match.
RECURSIVE CheckLoopNoBreak(_, _, _, _, _, _)
CheckLoopNoBreak(dir, cands, i, hsv_frame, gt_color, tr) ==
    IF i > Len(cands) THEN
        [matched |-> \E k \in 1..Len(tr) : tr[k].color = gt_color,
         trace |-> tr]
    ELSE LET f == MaskFile(dir, cands[i]) IN
         IF ~f.readable
         THEN CheckLoopNoBreak(dir, cands, i + 1, hsv_frame, gt_color,
                  Append(tr, Checked(cands[i], FALSE, <<0, 0>>, "")))
         ELSE CheckLoopNoBreak(dir, cands, i + 1, hsv_frame, gt_color,
                  Append(tr, Checked(cands[i], TRUE, avg_hue(hsv_frame, f.px),
                      detect_color_hue_based(avg_hue(hsv_frame, f.px)))))

\* Mutant: a mask that cannot be read ends the loop over the masks.
RECURSIVE CheckLoopUnreadableEnds(_, _, _, _, _, _)
CheckLoopUnreadableEnds(dir, cands, i, hsv_frame, gt_color, tr) ==
    IF i > Len(cands) THEN [matched |-> FALSE, trace |-> tr]
    ELSE LET f == MaskFile(dir, cands[i]) IN
         IF ~f.readable
         THEN [matched |-> FALSE,
               trace |-> Append(tr, Checked(cands[i], FALSE, <<0, 0>>, ""))]
         ELSE LET hue   == avg_hue(hsv_frame, f.px)
                  color == detect_color_hue_based(hue)
                  tr2   == Append(tr, Checked(cands[i], TRUE, hue, color))
              IN IF color = gt_color
                 THEN [matched |-> TRUE, trace |-> tr2]
                 ELSE CheckLoopUnreadableEnds(dir, cands, i + 1, hsv_frame,
                                              gt_color, tr2)

\* The loop over the masks of one class: what was done with each mask that
\* was looked at, and whether the loop ended with a match.
RECURSIVE CheckLoop(_, _, _, _, _, _)
CheckLoop(dir, cands, i, hsv_frame, gt_color, tr) ==
    IF i > Len(cands) THEN [matched |-> FALSE, trace |-> tr]
    ELSE LET f == MaskFile(dir, cands[i]) IN
         IF ~f.readable
         THEN CheckLoop(dir, cands, i + 1, hsv_frame, gt_color,
                        Append(tr, Checked(cands[i], FALSE, <<0, 0>>, "")))
         ELSE LET hue   == avg_hue(hsv_frame, f.px)
                  color == detect_color_hue_based(hue)
                  tr2   == Append(tr, Checked(cands[i], TRUE, hue, color))
              IN IF color = gt_color
                 THEN [matched |-> TRUE, trace |-> tr2]
                 ELSE CheckLoop(dir, cands, i + 1, hsv_frame, gt_color, tr2)

\* The loop over the ground-truth objects of one image.
ObjResults(dir, names, hsv_frame, gt_entry) ==
    [obj_idx \in 1..Len(gt_entry.objs) |->
        CheckLoop(dir,
                  MasksPerClass(names, coco_class_idx(gt_entry.objs[obj_idx])),
                  1, hsv_frame, gt_entry.colors[obj_idx], <<>>)]

Matches(results) ==
    Cardinality({k \in 1..Len(results) : results[k].matched})

\* Mutant: the objects of a record are counted after the file checks, so
\* a skipped record adds nothing to the denominator.
ColorRecordCountsScoredOnly ==
    /\ scorer = "color"
    /\ pc = "loop"
    /\ img_id < Len(gt_data)
    /\ LET gt_entry == gt_data[img_id + 1] IN
       IF gt_entry.level # level
       THEN /\ last' = [img |-> img_id, stage |-> "level", res |-> "false",
                        warned |-> FALSE, results |-> <<>>]
            /\ UNCHANGED <<true_count, total_count>>
       ELSE IF ~images[img_id].readable
       THEN /\ last' = [img |-> img_id, stage |-> "no_image",
                        res |-> "false", warned |-> TRUE, results |-> <<>>]
            /\ UNCHANGED <<true_count, total_count>>
       ELSE IF Len(pred_data[img_id]) = 0
       THEN /\ last' = [img |-> img_id, stage |-> "no_masks",
                        res |-> "false", warned |-> TRUE, results |-> <<>>]
            /\ UNCHANGED <<true_count, total_count>>
       ELSE LET results == ObjResults(raw_pred, pred_data[img_id],
                                      images[img_id].hue, gt_entry)
            IN /\ last' = [img |-> img_id, stage |-> "scored",
                           res |-> "false",
                           warned |->
                               \/ \E k \in 1..Len(results) :
                                     \E j \in 1..Len(results[k].trace) :
                                         ~results[k].trace[j].loaded
                               \/ \E j \in 1..Len(pred_data[img_id]) :
                                     ~IsInt(ClassToken(pred_data[img_id][j])),
                           results |-> results]
               /\ total_count' = total_count + Len(gt_entry.objs)
               /\ true_count' = true_count + Matches(results)
    /\ img_id' = img_id + 1
    /\ UNCHANGED <<scorer, gt_data, pred_data, level, pc, sorted_pred_objs,
                   acc, totals, raw_pred, images, all_acc, avg>>

\* One iteration of the loop over the records.
ColorRecord ==
    /\ scorer = "color"
    /\ pc = "loop"
    /\ img_id < Len(gt_data)
    /\ LET gt_entry == gt_data[img_id + 1] IN
       IF gt_entry.level # level
       THEN /\ last' = [img |-> img_id, stage |-> "level", res |-> "false",
                        warned |-> FALSE, results |-> <<>>]
            /\ UNCHANGED <<true_count, total_count>>
       ELSE IF ~images[img_id].readable
       THEN /\ last' = [img |-> img_id, stage |-> "no_image",
                        res |-> "false", warned |-> TRUE, results |-> <<>>]
            /\ total_count' = total_count + Len(gt_entry.objs)
            /\ UNCHANGED true_count
       ELSE IF Len(pred_data[img_id]) = 0
       THEN /\ last' = [img |-> img_id, stage |-> "no_masks",
                        res |-> "false", warned |-> TRUE, results |-> <<>>]
            /\ total_count' = total_count + Len(gt_entry.objs)
            /\ UNCHANGED true_count
       ELSE LET results == ObjResults(raw_pred, pred_data[img_id],
                                      images[img_id].hue, gt_entry)
            IN /\ last' = [img |-> img_id, stage |-> "scored",
                           res |-> "false",
                           warned |->
                               \/ \E k \in 1..Len(results) :
                                     \E j \in 1..Len(results[k].trace) :
                                         ~results[k].trace[j].loaded
                               \/ \E j \in 1..Len(pred_data[img_id]) :
                                     ~IsInt(ClassToken(pred_data[img_id][j])),
                           results |-> results]
               /\ total_count' = total_count + Len(gt_entry.objs)
               /\ true_count' = true_count + Matches(results)
    /\ img_id' = img_id + 1
    /\ UNCHANGED <<scorer, gt_data, pred_data, level, pc, sorted_pred_objs,
                   acc, totals, raw_pred, images, all_acc, avg>>

\* return 100 * true_counter / total_num_objs
ColorReturn ==
    /\ scorer = "color"
    /\ pc = "loop"
    /\ img_id = Len(gt_data)
    /\ IF total_count = 0
       THEN /\ pc' = "aborted"
            /\ last' = [img |-> -1, stage |-> "return",
                        res |-> "ZeroDivisionError", warned |-> FALSE,
                        results |-> <<>>]
            /\ UNCHANGED acc
       ELSE /\ pc' = "returned"
            /\ acc' = <<100 * true_count, total_count>>
            /\ UNCHANGED last
    /\ UNCHANGED <<scorer, gt_data, pred_data, level, img_id, true_count,
                   total_count, sorted_pred_objs, totals, raw_pred, images,
                   all_acc, avg>>

MaxMasks == 2      \* most mask files of one image

ColorPrompt == <<"a", " ", "car">>

\* Hue values on both sides of every band boundary.
Hues == {0, 14, 15, 21, 22, 38, 39, 77, 78, 130, 131, 179}

ImageFiles ==
    {[readable |-> TRUE, hue |-> <<h1, h2>>] : h1 \in Hues, h2 \in {0, 60}}
    \cup {[readable |-> FALSE, hue |-> <<>>]}

ColorRecords ==
    {[prompt |-> ColorPrompt, objs |-> <<"person", "car">>, colors |-> c,
      level |-> l] :
        c \in {<<"red", "red">>, <<"blue", "red">>, <<"green", "yellow">>,
               <<"orange", "blue">>},
        l \in Levels}

\* What a mask file holds, and the token its name carries as class id
\* ("x" does not parse).
MaskContents ==
    {[cls |-> "0", readable |-> TRUE, px |-> x] :
        x \in {<<255, 0>>, <<255, 255>>, <<0, 255>>, <<128, 0>>}}
    \cup {[cls |-> "2", readable |-> TRUE, px |-> x] :
             x \in {<<255, 0>>, <<255, 255>>}}
    \cup {[cls |-> "0", readable |-> FALSE, px |-> <<>>],
          [cls |-> "x", readable |-> TRUE, px |-> <<255, 255>>]}

\* The k-th mask file written for the image of record idx.
MaskOf(idx, g, k, m) ==
    [name |-> ImgName(idx, g.level, g.prompt)
                  \o <<"_", NumStr(k), "_", m.cls, ".png">>,
     readable |-> m.readable, px |-> m.px]

\* The mask directories of a one-image run.
MaskDirs(idx, g) ==
    UNION {{[k \in 1..n |-> MaskOf(idx, g, k, ms[k])] :
               ms \in [1..n -> MaskContents]} : n \in 0..MaxMasks}

Names(dir) == [k \in 1..Len(dir) |-> dir[k].name]

InitColor ==
    /\ scorer = "color"
    /\ level \in Levels
    /\ \E g \in ColorRecords :
          /\ gt_data = << g >>
          /\ IF g.level = level
             THEN /\ images \in {OneEntry(f) : f \in ImageFiles}
                  /\ raw_pred \in MaskDirs(0, g)
             ELSE /\ images = OneEntry([readable |-> TRUE, hue |-> <<14, 60>>])
                  /\ raw_pred \in {<<>>, << MaskOf(0, g, 1,
                        [cls |-> "0", readable |-> TRUE, px |-> <<255, 0>>]) >>}
    /\ pred_data = load_pred(Names(raw_pred), gt_data)
    /\ img_id = 0
    /\ pc = "loop"
    /\ true_count = 0
    /\ total_count = 0
    /\ sorted_pred_objs = <<>>
    /\ last = NoLast
    /\ acc = <<0, 1>>
    /\ totals = [tp |-> 0, fp |-> 0, fn |-> 0]
    /\ all_acc = <<>>
    /\ avg = <<0, 1>>

NextColor == ColorRecord \/ ColorReturn

SpecColor == InitColor /\ [][NextColor]_vars

----------------------------------------------------------------------------
(* __main__ of each scorer: one pass per level, the per-level metrics      *)
(* appended to a list, and their mean as the overall metric.               *)

RECURSIVE GCD(_, _)
GCD(a, b) == IF b = 0 THEN a ELSE GCD(b, a % b)

\* The same value in lowest terms (numerators are never negative here).
Norm(f) == LET d == GCD(f[1], f[2]) IN <<f[1] \div d, f[2] \div d>>

FracAdd(f, g) == Norm(<<f[1] * g[2] + g[1] * f[2], f[2] * g[2]>>)
FracMul(f, g) == Norm(<<f[1] * g[1], f[2] * g[2]>>)
FracDiv(f, g) == Norm(<<f[1] * g[2], f[2] * g[1]>>)
FracPos(f) == f[1] > 0

RECURSIVE FracSum(_)
FracSum(fs) ==
    IF Len(fs) = 0 THEN <<0, 1>>
    ELSE FracAdd(fs[1], FracSum(Tail(fs)))

\* sum(xs) / len(xs) if xs else 0.0
Mean(fs) ==
    IF Len(fs) > 0 THEN FracDiv(FracSum(fs), <<Len(fs), 1>>) ELSE <<0, 1>>

\* Mutant: the arithmetic mean in place of the harmonic mean.
f1_score_arithmetic(precision, recall) ==
    FracDiv(FracAdd(precision, recall), <<2, 1>>)

\* The counting scorer's loop body: precision and recall as percentages
\* and the F1 score.
f1_score(precision, recall) ==
    IF FracPos(FracAdd(precision, recall))
    THEN FracDiv(FracMul(<<2, 1>>, FracMul(precision, recall)),
                 FracAdd(precision, recall))
    ELSE <<0, 1>>

counting_metrics(pr) ==
    LET precision == FracMul(pr[1], <<100, 1>>)
        recall    == FracMul(pr[2], <<100, 1>>)
    IN [precision |-> precision, recall |-> recall,
        f1 |-> f1_score(precision, recall)]

\* One iteration of the level loop after the pass has returned: the metric
\* is appended, and the next level's pass starts with fresh accumulators.
MainLevel ==
    /\ pc = "returned"
    /\ all_acc' = Append(all_acc, IF scorer = "counting"
                                  THEN counting_metrics(acc) ELSE acc)
    /\ IF level < NUM_LEVELS
       THEN /\ level' = level + 1
            /\ pc' = "loop"
       ELSE /\ level' = level
            /\ pc' = "summary"
    /\ img_id' = 0
    /\ true_count' = 0
    /\ total_count' = 0
    /\ totals' = [tp |-> 0, fp |-> 0, fn |-> 0]
    /\ sorted_pred_objs' = <<>>
    /\ last' = NoLast
    /\ UNCHANGED <<scorer, gt_data, pred_data, acc, raw_pred, images, avg>>

Column(rs, field) == [k \in 1..Len(rs) |-> rs[k][field]]

\* The overall metric: the mean of the per-level list (of each of the three
\* lists in the counting scorer).
MainSummary ==
    /\ pc = "summary"
    /\ avg' = IF scorer = "counting"
              THEN [precision |-> Mean(Column(all_acc, "precision")),
                    recall    |-> Mean(Column(all_acc, "recall")),
                    f1        |-> Mean(Column(all_acc, "f1"))]
              ELSE Mean(all_acc)
    /\ pc' = "done"
    /\ UNCHANGED <<scorer, gt_data, pred_data, level, img_id, true_count,
                   total_count, sorted_pred_objs, last, acc, totals,
                   raw_pred, images, all_acc>>

\* A data set of the whole run: a list of (record, slots or nothing) pairs.
Sample(g, v) == [gt |-> g, has |-> TRUE, slots |-> v]
NoSample(g) == [gt |-> g, has |-> FALSE, slots |-> <<>>]

GtOf(ds) == [k \in 1..Len(ds) |-> ds[k].gt]
PredOf(ds) ==
    [img \in {k - 1 : k \in {j \in 1..Len(ds) : ds[j].has}} |->
        ds[img + 1].slots]

DataSets(first, second) ==
    {<<>>} \cup {<<p>> : p \in first}
           \cup {<<p, q>> : p \in first, q \in second}

TwoObjs == <<"airplane", "car">>

MainRelRecords(sc) ==
    {[objs |-> TwoObjs, relations |-> <<r>>, level |-> l] :
        r \in (IF sc = "size" THEN {"larger"} ELSE {"above"}), l \in Levels}

MainRelFirst(sc) ==
    {NoSample(g) : g \in MainRelRecords(sc)}
    \cup {Sample(g, Lift(e)) : g \in MainRelRecords(sc), e \in Complete(TwoObjs)}

MainRelSecond(sc) ==
    {NoSample(g) : g \in MainRelRecords(sc)}
    \cup {Sample(g, Lift(Fixed(TwoObjs))) : g \in MainRelRecords(sc)}

RECURSIVE Repeat(_, _)
Repeat(x, n) == IF n = 0 THEN <<>> ELSE Append(Repeat(x, n - 1), x)

MainCountRecords ==
    {[expected_obj1 |-> "cup", expected_n1 |-> n1,
      expected_obj2 |-> o2, expected_n2 |-> (IF o2 = "" THEN 0 ELSE 1),
      level |-> l] : n1 \in 1..MaxCount, o2 \in {"", "dog"}, l \in Levels}

MainCountFirst ==
    {NoSample(g) : g \in MainCountRecords}
    \cup {Sample(g, v) : g \in MainCountRecords,
             v \in UNION {[1..n -> {RawSlot(c) : c \in CountClasses}] :
                             n \in 0..MaxSlots}}

MainCountSecond ==
    {Sample(g, Repeat(RawSlot("cup"), n)) :
        g \in {h \in MainCountRecords :
                  h.expected_n1 = 1 /\ h.expected_obj2 = ""},
        n \in {1, 3}}

\* Color data sets of up to three images: the record, the image file and
\* what the mask files of the image hold.
ColorSample(g, f, ms) == [gt |-> g, image |-> f, masks |-> ms]

PersonMask == [cls |-> "0", readable |-> TRUE, px |-> <<255, 0>>]
CarMask == [cls |-> "2", readable |-> TRUE, px |-> <<255, 0>>]

MainColorRecords ==
    {g \in ColorRecords : g.colors \in {<<"red", "red">>, <<"blue", "red">>}}

MainColorFirst ==
    {ColorSample(g, f, ms) :
        g \in MainColorRecords,
        f \in {[readable |-> TRUE, hue |-> <<14, 60>>],
               [readable |-> TRUE, hue |-> <<78, 60>>],
               [readable |-> FALSE, hue |-> <<>>]},
        ms \in {<<>>, <<PersonMask>>, <<PersonMask, CarMask>>}}

MainColorOther ==
    {ColorSample(g, [readable |-> TRUE, hue |-> <<14, 60>>],
                 <<PersonMask, CarMask>>) :
        g \in {h \in MainColorRecords : h.colors = <<"red", "red">>}}

\* A prompt that begins with a number.
NumberedPrompt == <<"2", " ">> \o ColorPrompt

\* Two-record data sets whose first prompt begins with a number.
MainColorNumbered ==
    {<<ColorSample([g EXCEPT !.prompt = NumberedPrompt],
                   [readable |-> TRUE, hue |-> <<14, 60>>],
                   <<PersonMask, CarMask>>), q>> :
        g \in MainColorRecords, q \in MainColorOther}

MainColorSets ==
    DataSets(MainColorFirst, MainColorOther)
    \cup {<<p, q, r>> : p \in MainColorFirst, q \in MainColorOther,
                        r \in MainColorOther}
    \cup MainColorNumbered

\* The mask directory of a data set: the files of every image.
RECURSIVE DirOf(_, _)
DirOf(ds, k) ==
    IF k > Len(ds) THEN <<>>
    ELSE [j \in 1..Len(ds[k].masks) |->
             MaskOf(k - 1, ds[k].gt, j, ds[k].masks[j])] \o DirOf(ds, k + 1)

InitMain ==
    /\ scorer \in {"size", "spatial", "counting", "color"}
    /\ level = 1
    /\ IF scorer = "color"
       THEN \E ds \in MainColorSets :
               /\ gt_data = GtOf(ds)
               /\ images = [idx \in 0..(Len(ds) - 1) |-> ds[idx + 1].image]
               /\ raw_pred = DirOf(ds, 1)
               /\ pred_data = load_pred(Names(raw_pred), gt_data)
       ELSE /\ \E ds \in (IF scorer = "counting"
                          THEN DataSets(MainCountFirst, MainCountSecond)
                          ELSE DataSets(MainRelFirst(scorer),
                                        MainRelSecond(scorer))) :
                  /\ gt_data = GtOf(ds)
                  /\ raw_pred = PredOf(ds)
            /\ pred_data = IF scorer = "counting" THEN raw_pred
                           ELSE convert_pred_format(raw_pred)
            /\ images = <<>>
    /\ img_id = 0
    /\ pc = "loop"
    /\ true_count = 0
    /\ total_count = 0
    /\ sorted_pred_objs = <<>>
    /\ last = NoLast
    /\ acc = <<0, 1>>
    /\ totals = [tp |-> 0, fp |-> 0, fn |-> 0]
    /\ all_acc = <<>>
    /\ avg = <<0, 1>>

NextMain ==
    \/ ScoreRecord
    \/ Return
    \/ CountRecord
    \/ CountReturn
    \/ ColorRecord
    \/ ColorReturn
    \/ MainLevel
    \/ MainSummary

SpecMain == InitMain /\ [][NextMain]_vars

----------------------------------------------------------------------------
(* Reference definitions the properties are stated with: the predicates of *)
(* the geometric library and the synonym sets of the relation labels, as   *)
(* the specification gives them.                                           *)

area(b) == (b[3] - b[1]) * (b[4] - b[2])
larger(a, b) == area(a) > area(b)
smaller(a, b) == area(a) < area(b)
right_of(a, b) == a[3] > b[3]
left_of(a, b) == a[1] < b[1]
above(a, b) == a[2] < b[2] \/ a[4] < b[4]
below(a, b) == a[4] > b[4] \/ a[2] > b[2]
between(a, b, c) ==
    \/ right_of(a, b) /\ left_of(a, c)
    \/ left_of(a, b) /\ right_of(a, c)
    \/ below(a, b) /\ above(a, c)
    \/ above(a, b) /\ below(a, c)

Recognized(sc, label) ==
    IF sc = "size" THEN label \in {"larger", "bigger", "smaller"}
    ELSE label \in {"on the right of", "right", "on the left of", "left",
                    "on", "above", "over", "top",
                    "below", "beneath", "under", "underneath"}

\* The predicate a relation label names; an unrecognized label names none
\* and is unsatisfied.
Named(sc, label, a, b) ==
    IF sc = "size"
    THEN CASE label \in {"larger", "bigger"} -> larger(a, b)
           [] label = "smaller" -> smaller(a, b)
           [] OTHER -> FALSE
    ELSE CASE label \in {"on the right of", "right"} -> right_of(a, b)
           [] label \in {"on the left of", "left"} -> left_of(a, b)
           [] label \in {"on", "above", "over", "top"} -> above(a, b)
           [] label \in {"below", "beneath", "under", "underneath"} ->
                  below(a, b)
           [] OTHER -> FALSE

RelScorer == scorer \in {"size", "spatial"}

\* The last iteration's record and prediction entry (no entry: no slots).
Scored == last.stage # "none"
S == gt_data[last.img + 1]
HasEntry == last.img \in DOMAIN pred_data
E == IF HasEntry THEN pred_data[last.img] ELSE <<>>

\* A relation-scorer record of the pass's level has been processed.
Attempt == RelScorer /\ Scored /\ S.level = level
Arity == Len(S.objs)
Rel == S.relations

PredClasses == {E[k].cls : k \in 1..Len(E)}
GtClasses == {S.objs[i] : i \in 1..Arity}

\* Every ground-truth object has a detection of its own: the classes of the
\* record are distinct and all detected.  Box(i) is the box of the
\* detection matched to object i (0-based).
AllMatched ==
    /\ GtClasses \subseteq PredClasses
    /\ Cardinality(GtClasses) = Arity
Box(i) ==
    E[CHOOSE k \in 1..Len(E) :
          /\ E[k].cls = S.objs[i + 1]
          /\ \A j \in (k + 1)..Len(E) : E[j].cls # S.objs[i + 1]].cords

\* The record raised true_count (the data set holds one record).
ScoredTrue == true_count = 1
\* The record is in the denominator once, and the loop has moved on.
Attempted == total_count = 1
Continues == pc # "aborted" /\ img_id = last.img + 1

----------------------------------------------------------------------------
(* Properties of the relation scorers (specification Spec).                *)

\* C1: for a 2-object record whose two classes are both detected, the image
\* is scored true iff the predicate named by relation[0] holds between the
\* detection matched to object 0 and the one matched to object 1.
C1_TwoObjectRelation ==
    (Attempt /\ Arity = 2 /\ Len(Rel) >= 1 /\ AllMatched)
        => (ScoredTrue <=> Named(scorer, Rel[1], Box(0), Box(1)))

\* "bigger" with areas 16 against 2 is scored true by the size scorer.
C1_Witness ==
    /\ Attempt /\ scorer = "size" /\ Arity = 2 /\ AllMatched
    /\ Rel = <<"bigger">>
    /\ area(Box(0)) = 16 /\ area(Box(1)) = 2
    /\ ScoredTrue

\* C2: a record one of whose classes is not among the image's predicted
\* classes is never scored true, is counted once in the denominator, and
\* the pass goes on.
C2_MissingClass ==
    (Attempt /\ ~(GtClasses \subseteq PredClasses))
        => (~ScoredTrue /\ Attempted /\ Continues)

C2_Witness ==
    /\ Attempt /\ HasEntry /\ Arity = 3
    /\ ~(GtClasses \subseteq PredClasses)
    /\ PredClasses # {}
    /\ last.stage = "miss" /\ total_count = 1 /\ true_count = 0

\* Both relation labels of the record belong to the scorer's synonym sets.
BothRecognized ==
    Len(Rel) = 2 /\ Recognized(scorer, Rel[1]) /\ Recognized(scorer, Rel[2])

\* C3 (as claimed): for a 3-object record with two relations, relation[0]
\* is a gate between objects 0 and 1: when its predicate fails the image is
\* not scored true but stays attempted; when it passes, the image is scored
\* true iff relation[1]'s predicate holds between objects 0 and 2.
C3_GateThenSecond ==
    (Attempt /\ Arity = 3 /\ BothRecognized /\ AllMatched)
        => IF Named(scorer, Rel[1], Box(0), Box(1))
           THEN ScoredTrue <=> Named(scorer, Rel[2], Box(0), Box(2))
           ELSE ~ScoredTrue /\ Attempted

\* C4 (as claimed): for a 4-object record with two relations, the image is
\* scored true iff relation[0]'s predicate holds between objects 0 and 2
\* and between 1 and 2, and relation[1]'s between 0 and 3 and between 1
\* and 3, in both scorers.
C4_HardConjunction ==
    (Attempt /\ Arity = 4 /\ BothRecognized /\ AllMatched)
        => (ScoredTrue <=> /\ Named(scorer, Rel[1], Box(0), Box(2))
                           /\ Named(scorer, Rel[1], Box(1), Box(2))
                           /\ Named(scorer, Rel[2], Box(0), Box(3))
                           /\ Named(scorer, Rel[2], Box(1), Box(3)))

\* What the between check decides for a record of 3 or of 4 objects.
BetweenHolds ==
    IF Arity = 3 THEN between(Box(0), Box(1), Box(2))
    ELSE between(Box(0), Box(2), Box(3)) /\ between(Box(1), Box(2), Box(3))

\* C5 (as claimed): when relation[1] is absent, a record of 3 or 4 objects
\* is scored true iff the between check holds, in the size scorer and in the
\* spatial scorer.
C5_BetweenEveryScorer ==
    (Attempt /\ Arity \in {3, 4} /\ Len(Rel) < 2 /\ AllMatched)
        => (ScoredTrue <=> BetweenHolds)

\* C5 (amended): when relation[1] is absent, the spatial scorer scores a
\* record of 3 or 4 objects true iff the between check holds; the size
\* scorer has no between check and never scores such a record true.
C5_BetweenSpatialOnly ==
    (Attempt /\ Arity \in {3, 4} /\ Len(Rel) < 2 /\ AllMatched)
        => IF scorer = "spatial" THEN (ScoredTrue <=> BetweenHolds)
           ELSE ~ScoredTrue

C5_Witness ==
    /\ Attempt /\ scorer = "spatial" /\ Arity = 4 /\ Len(Rel) = 1
    /\ AllMatched /\ BetweenHolds /\ ScoredTrue

\* Relation positions a record of the given arity makes use of.
UsedPositions == IF Arity = 2 THEN {1} ELSE {1, 2}

\* C6 (as claimed): a record of 2, 3 or 4 objects with a relation label
\* outside the synonym sets, in relation[0] or in relation[1], is never
\* scored true, is counted as attempted, and does not stop the pass.
C6_UnknownLabel ==
    (Attempt /\ Arity \in {2, 3, 4}
       /\ \E i \in UsedPositions \cap (1..Len(Rel)) :
             ~Recognized(scorer, Rel[i]))
        => /\ ~ScoredTrue
           /\ Attempted
           /\ (AllMatched => Continues)

\* "right" <-> "on the right of", "left" <-> "on the left of".
OtherForm(label) ==
    CASE label = "right" -> "on the right of"
      [] label = "on the right of" -> "right"
      [] label = "left" -> "on the left of"
      [] label = "on the left of" -> "left"
      [] OTHER -> label

\* C7 (as claimed): in the spatial scorer, replacing a short label by its
\* long form (or the reverse) in relation[0] or in relation[1] leaves the
\* image's outcome unchanged, at every arity (every class being detected).
C7_ShortLabels ==
    (Attempt /\ scorer = "spatial" /\ AllMatched)
        => \A i \in 1..Len(Rel) :
              cal_acc_body(scorer,
                           [S EXCEPT !.relations[i] = OtherForm(Rel[i])],
                           pred_data, last.img, level).out.res = last.res

\* C8 (as claimed): when the assignment lacks an entry for some object
\* index, the image is scored as a miss (not true, attempted) and the pass
\* goes on to the next image.
C8_IncompleteAssignment ==
    (Attempt /\ HasEntry /\ Len(Rel) >= 1
       /\ \E i \in 0..(Arity - 1) : i \notin DOMAIN _sort_pred_obj(E, S.objs))
        => (~ScoredTrue /\ Attempted /\ Continues)

\* C9 (as claimed): a record whose object list has not 2, 3 or 4 entries
\* produces a warning, is never counted true, stays attempted, and the pass
\* goes on.
C9_ArityWarns ==
    (Attempt /\ Arity \notin {2, 3, 4})
        => (last.warned /\ ~ScoredTrue /\ Attempted /\ Continues)

\* C9 (amended): such a record is never counted true, stays attempted and
\* the pass goes on; the warning is produced exactly when the image has a
\* prediction entry in which every class of the record appears (the class
\* check comes before the arity dispatch).
C9_ArityNotScored ==
    (Attempt /\ Arity \notin {2, 3, 4})
        => /\ ~ScoredTrue /\ Attempted /\ Continues
           /\ last.warned <=> (HasEntry /\ GtClasses \subseteq PredClasses)

C9_Witness ==
    /\ Attempt /\ Arity = 1 /\ Len(Rel) = 1 /\ HasEntry
    /\ GtClasses \subseteq PredClasses
    /\ last.warned /\ total_count = 1 /\ true_count = 0 /\ pc = "loop"

----------------------------------------------------------------------------
(* Properties of the counting scorer (specification SpecCount).            *)

\* Slots of the entry whose class is c.
Detected(entry, c) ==
    Cardinality({k \in 1..Len(entry) : entry[k][1][5] = c})

\* One expected class's share of the counts.
Share(n, d) ==
    [tp |-> IF n <= d THEN n ELSE d,
     fp |-> IF d > n THEN d - n ELSE 0,
     fn |-> IF n > d THEN n - d ELSE 0]

Compared == scorer = "counting" /\ last.stage = "compared" /\ pc # "aborted"

\* The record's counts are a mapping of one or two classes: a second class,
\* when named, differs from the first and has a positive expected count.
CountsMapping(g) ==
    \/ g.expected_obj2 = ""
    \/ g.expected_obj2 # g.expected_obj1 /\ g.expected_n2 > 0

----------------------------------------------------------------------------
(* Properties of calc_accuracy and of __main__ (specification SpecMain).   *)

\* The counts of image k (1-based) as the specification gives them.
ImageCounts(k) ==
    LET g  == gt_data[k]
        e  == pred_data[k - 1]
        s1 == Share(g.expected_n1, Detected(e, g.expected_obj1))
        s2 == IF g.expected_obj2 = "" THEN [tp |-> 0, fp |-> 0, fn |-> 0]
              ELSE Share(g.expected_n2, Detected(e, g.expected_obj2))
    IN [tp |-> s1.tp + s2.tp, fp |-> s1.fp + s2.fp, fn |-> s1.fn + s2.fn]

\* Images of the pass's level that have a prediction entry.
Pooled == {k \in 1..Len(gt_data) :
              gt_data[k].level = level /\ (k - 1) \in DOMAIN pred_data}

RECURSIVE SumOver(_, _)
SumOver(ks, field) ==
    IF ks = {} THEN 0
    ELSE LET k == CHOOSE x \in ks : TRUE
         IN ImageCounts(k)[field] + SumOver(ks \ {k}, field)

\* The fraction f has the value num / den, or 0 when den is 0.
RateIs(f, num, den) ==
    /\ f[2] > 0
    /\ IF den > 0 THEN f[1] * den = num * f[2] ELSE f[1] = 0

CountingReturned == scorer = "counting" /\ pc = "returned"

\* C11: calc_accuracy returns precision = TP/(TP+FP) and recall =
\* TP/(TP+FN) of the TP, FP, FN totals summed over the images of the level
\* (pooled, not a mean of per-image ratios), each 0 when its denominator
\* is 0.
C11_PooledRatios ==
    CountingReturned =>
        LET tp == SumOver(Pooled, "tp")
            fp == SumOver(Pooled, "fp")
            fn == SumOver(Pooled, "fn")
        IN /\ RateIs(acc[1], tp, tp + fp)
           /\ RateIs(acc[2], tp, tp + fn)

\* Two images of one level, 1 cup expected in each, 1 and 3 cups detected:
\* the pooled precision is 2/4 (the mean of 1/1 and 1/3 would be 2/3).
C11_Witness ==
    /\ CountingReturned
    /\ Pooled = {1, 2}
    /\ ImageCounts(1) = [tp |-> 1, fp |-> 0, fn |-> 0]
    /\ ImageCounts(2) = [tp |-> 1, fp |-> 2, fn |-> 0]
    /\ RateIs(acc[1], 1, 2)
    /\ RateIs(acc[2], 1, 1)

\* The fraction lies in [0, 100].
InPercentRange(f) == f[2] > 0 /\ 0 <= f[1] /\ f[1] <= 100 * f[2]

\* C12: the per-level counting precision, recall and F1 (percentages) lie
\* in [0, 100]; F1 = 2*P*R/(P+R) when P+R > 0, and F1 = 0 when precision
\* and recall are both 0.
C12_CountingMetrics ==
    scorer = "counting" =>
        \A k \in 1..Len(all_acc) :
            LET P == all_acc[k].precision
                R == all_acc[k].recall
                F == all_acc[k].f1
                sum == P[1] * R[2] + R[1] * P[2]
            IN /\ InPercentRange(P) /\ InPercentRange(R) /\ InPercentRange(F)
               /\ sum > 0 => F[1] * sum = 2 * P[1] * R[1] * F[2]
               /\ (P[1] = 0 /\ R[1] = 0) => F[1] = 0

\* Precision 50, recall 100, F1 200/3.
C12_Witness ==
    /\ scorer = "counting"
    /\ \E k \in 1..Len(all_acc) :
          /\ all_acc[k].precision = <<50, 1>>
          /\ all_acc[k].recall = <<100, 1>>
          /\ all_acc[k].f1 = <<200, 3>>

\* A pass has ended, by returning or by an uncaught exception.
PassEnded == pc \in {"returned", "aborted"}

\* C13 (as claimed): every rate evaluates to 0 and nothing is raised when
\* its denominator is zero: the accuracy of a size, spatial or color pass
\* that attempted nothing, and the precision, recall and F1 of the counting
\* scorer.
C13_ZeroDenominator ==
    /\ (scorer \in {"size", "spatial", "color"} /\ PassEnded
          /\ total_count = 0)
           => (pc = "returned" /\ acc[1] = 0)
    /\ CountingReturned
           => /\ totals.tp + totals.fp = 0 => acc[1][1] = 0
              /\ totals.tp + totals.fn = 0 => acc[2][1] = 0
    /\ scorer = "counting"
           => \A k \in 1..Len(all_acc) :
                 (all_acc[k].precision[1] = 0 /\ all_acc[k].recall[1] = 0)
                     => all_acc[k].f1 = <<0, 1>>

(***************************************************************************)
(* Properties of the color scorer (specification SpecColor).               *)
(***************************************************************************)

\* The masks looked at for the objects of the record scored last.
ColorScored == scorer = "color" /\ last.img >= 0 /\ last.stage = "scored"

\* lo <= h < hi for a hue h = n/d with d > 0.
InBand(h, lo, hi) == lo * h[2] <= h[1] /\ h[1] < hi * h[2]

FiveColors == {"red", "orange", "yellow", "green", "blue"}

\* C14: the classifier returns red for hue < 15, orange for 15 <= hue < 22,
\* yellow for 22 <= hue < 39, green for 39 <= hue < 78, blue for
\* 78 <= hue < 131 and red for hue >= 131, and never a color outside the
\* five.
C14_HueBands ==
    ColorScored =>
        \A k \in 1..Len(last.results) :
            \A j \in 1..Len(last.results[k].trace) :
                LET c == last.results[k].trace[j] IN
                c.loaded =>
                    /\ c.color \in FiveColors
                    /\ c.avg_hue[2] > 0 =>
                          /\ (c.color = "red") <=>
                                 (c.avg_hue[1] < 15 * c.avg_hue[2]
                                    \/ c.avg_hue[1] >= 131 * c.avg_hue[2])
                          /\ (c.color = "orange") <=> InBand(c.avg_hue, 15, 22)
                          /\ (c.color = "yellow") <=> InBand(c.avg_hue, 22, 39)
                          /\ (c.color = "green") <=> InBand(c.avg_hue, 39, 78)
                          /\ (c.color = "blue") <=> InBand(c.avg_hue, 78, 131)

\* A mask of average hue exactly 15, the lower end of the orange band, was
\* classified as orange.
C14_Witness ==
    /\ ColorScored
    /\ \E j \in 1..Len(last.results[1].trace) :
          LET c == last.results[1].trace[j] IN
          c.loaded /\ c.avg_hue = <<15, 1>> /\ c.color = "orange"

\* The class id a mask name must end with to belong to a ground-truth
\* object.
ClassIdString(obj) ==
    CASE obj = "person" -> "0" [] obj = "car" -> "2" [] obj = "dog" -> "16"

\* The candidate masks of object k of the record scored last: the masks of
\* its image whose trailing class id is the one of the object, in the order
\* of the image's mask list.
Candidates(k) ==
    SelectSeq(pred_data[last.img],
              LAMBDA n : ClassToken(n) = ClassIdString(S.objs[k]))

\* The positions of the candidates of object k that are readable and whose
\* classified color is the expected one.
Hits(k) ==
    {i \in 1..Len(Candidates(k)) :
        LET f == MaskFile(raw_pred, Candidates(k)[i]) IN
        /\ f.readable
        /\ detect_color_hue_based(avg_hue(images[last.img].hue, f.px))
               = S.colors[k]}

\* C15: for each (object, color) pair only the masks of the object's class
\* id are looked at, in order, up to and including the first one whose
\* color is the expected one; the pair counts 1 if some candidate matches
\* and 0 otherwise.
C15_FirstMatchingMask ==
    ColorScored =>
        /\ \A k \in 1..Len(S.objs) :
              LET tr == last.results[k].trace IN
              /\ Len(tr) = IF Hits(k) = {} THEN Len(Candidates(k))
                           ELSE CHOOSE i \in Hits(k) :
                                    \A h \in Hits(k) : i <= h
              /\ \A j \in 1..Len(tr) : tr[j].name = Candidates(k)[j]
              /\ last.results[k].matched <=> Hits(k) # {}
        /\ true_count = Cardinality({k \in 1..Len(S.objs) : Hits(k) # {}})

\* The image has two masks of the first object's class, both of the
\* expected color: only the first was looked at and the pair counted once.
C15_Witness ==
    /\ ColorScored
    /\ Len(Candidates(1)) = 2
    /\ Hits(1) = {1, 2}
    /\ Len(last.results[1].trace) = 1
    /\ true_count = 1

\* The foreground pixels of a mask: those whose value is 1 after the
\* scaling by 255.
Foreground(px) == {i \in 1..Len(px) : px[i] \div 255 = 1}

RECURSIVE HueOver(_, _)
HueOver(hsv_frame, pixels) ==
    IF pixels = {} THEN 0
    ELSE LET i == CHOOSE i \in pixels : TRUE
         IN hsv_frame[i] + HueOver(hsv_frame, pixels \ {i})

\* C16 (as claimed): the average hue given to the classifier is the sum of
\* the hue over the foreground pixels of the mask divided by the number of
\* foreground pixels, foreground pixels of hue 0 included.
C16_MeanOverForeground ==
    ColorScored =>
        \A k \in 1..Len(last.results) :
            \A j \in 1..Len(last.results[k].trace) :
                LET c  == last.results[k].trace[j]
                    fg == Foreground(MaskFile(raw_pred, c.name).px)
                IN (c.loaded /\ fg # {}) =>
                      /\ c.avg_hue[2] > 0
                      /\ c.avg_hue[1] * Cardinality(fg)
                            = HueOver(images[last.img].hue, fg) * c.avg_hue[2]

\* The record scored last was skipped or scored, and the pass went on to
\* the next record without an exception.
ColorContinues ==
    /\ pc \in {"loop", "returned"}
    /\ img_id = last.img + 1

\* The candidates of object k that cannot be read.
Unreadable(k) ==
    {i \in 1..Len(Candidates(k)) :
        ~MaskFile(raw_pred, Candidates(k)[i]).readable}

\* C19: an image that cannot be read, an image without masks and a mask
\* that cannot be read are each skipped with a warning; the pass goes on
\* with the remaining masks, objects and images and is not aborted.
C19_SkipsUnreadable ==
    /\ (scorer = "color" /\ last.img >= 0
          /\ (~images[last.img].readable \/ pred_data[last.img] = <<>>)
          /\ S.level = level)
           => /\ last.stage \in {"no_image", "no_masks"}
              /\ last.warned
              /\ true_count = 0
              /\ ColorContinues
    /\ ColorScored
           => /\ ColorContinues
              /\ Len(last.results) = Len(S.objs)
              /\ \A k \in 1..Len(S.objs) :
                    \A i \in Unreadable(k) :
                        (\A h \in Hits(k) : i < h) =>
                            /\ last.warned
                            /\ ~last.results[k].trace[i].loaded
                            /\ i < Len(Candidates(k)) =>
                                  Len(last.results[k].trace) > i
                            /\ last.results[k].matched <=> Hits(k) # {}

\* The first mask of the first object's class cannot be read; the second
\* one was looked at and has the expected color.
C19_Witness ==
    /\ ColorScored
    /\ Unreadable(1) = {1}
    /\ Hits(1) = {2}
    /\ last.warned
    /\ last.results[1].matched
    /\ true_count = 1
    /\ pc = "returned"

(***************************************************************************)
(* Properties of the level loop (specification SpecMain).                  *)
(***************************************************************************)

\* f is the third of the sum of the three fractions of ms.
MeanOfThree(f, ms) ==
    /\ Len(ms) = 3
    /\ f[2] > 0
    /\ f[1] * 3 * ms[1][2] * ms[2][2] * ms[3][2]
          = f[2] * (ms[1][1] * ms[2][2] * ms[3][2]
                      + ms[2][1] * ms[1][2] * ms[3][2]
                      + ms[3][1] * ms[1][2] * ms[2][2])

\* The pass of the current level has ended without having attempted an
\* image.
NothingAttempted ==
    /\ PassEnded
    /\ IF scorer = "counting" THEN totals = [tp |-> 0, fp |-> 0, fn |-> 0]
       ELSE total_count = 0

\* C17 (as claimed): the overall metric of every scorer is (m1 + m2 + m3) / 3
\* of the per-level metrics, and a level with no attempted image has metric
\* 0.
C17_UnweightedMean ==
    /\ pc = "done" =>
          IF scorer = "counting"
          THEN /\ MeanOfThree(avg.precision, Column(all_acc, "precision"))
               /\ MeanOfThree(avg.recall, Column(all_acc, "recall"))
               /\ MeanOfThree(avg.f1, Column(all_acc, "f1"))
          ELSE MeanOfThree(avg, all_acc)
    /\ NothingAttempted =>
          /\ pc = "returned"
          /\ IF scorer = "counting"
             THEN counting_metrics(acc) = [precision |-> <<0, 1>>,
                                           recall |-> <<0, 1>>,
                                           f1 |-> <<0, 1>>]
             ELSE acc[1] = 0 /\ acc[2] > 0

(***************************************************************************)
(* Properties of the prediction records (specifications Spec, SpecCount).  *)
(***************************************************************************)

\* The slots of a loaded prediction entry that hold at least one detection,
\* each represented by its first detection.
FirstOfSlots(slots) ==
    LET kept == SelectSeq(slots, LAMBDA slot : slot # <<>>)
    IN [k \in 1..Len(kept) |-> kept[k][1]]

\* The number of represented slots of class c.
SlotsOf(slots, c) ==
    Cardinality({k \in 1..Len(FirstOfSlots(slots)) :
                    FirstOfSlots(slots)[k][5] = c})

\* C18 (as claimed): in the size, spatial and counting scorers a slot with
\* detections is represented by its first detection only (class = last
\* field, box = first four fields as numbers) and an empty slot is dropped
\* without an error.
C18_FirstDetectionOfSlot ==
    /\ scorer \in {"size", "spatial"} =>
          \A img \in DOMAIN raw_pred :
              LET firsts == FirstOfSlots(raw_pred[img]) IN
              /\ Len(pred_data[img]) = Len(firsts)
              /\ \A k \in 1..Len(firsts) :
                    /\ pred_data[img][k].cls = firsts[k][5]
                    /\ \A i \in 1..4 :
                          NumStr(pred_data[img][k].cords[i]) = firsts[k][i]
    /\ (scorer = "counting" /\ last.stage = "compared") =>
          /\ pc # "aborted"
          /\ CountsMapping(S) =>
                LET s1 == Share(S.expected_n1,
                                SlotsOf(raw_pred[last.img], S.expected_obj1))
                    s2 == IF S.expected_obj2 = ""
                          THEN [tp |-> 0, fp |-> 0, fn |-> 0]
                          ELSE Share(S.expected_n2,
                                     SlotsOf(raw_pred[last.img],
                                             S.expected_obj2))
                IN totals = [tp |-> s1.tp + s2.tp, fp |-> s1.fp + s2.fp,
                             fn |-> s1.fn + s2.fn]

(***************************************************************************)
(* Properties of the size predicates (specification Spec).                 *)
(***************************************************************************)

\* The boxes of the converted prediction records.
PredBoxes ==
    UNION {{pred_data[img][k].cords : k \in 1..Len(pred_data[img])} :
              img \in DOMAIN pred_data}

\* C20: larger and smaller compare the areas (xmax - xmin) * (ymax - ymin)
\* strictly: larger(a, b) equals smaller(b, a), exactly one of larger(a, b)
\* and smaller(a, b) holds when the areas differ, and neither when they are
\* equal.
C20_StrictAreaOrder ==
    \A a \in PredBoxes : \A b \in PredBoxes :
        LET area_a == (a[3] - a[1]) * (a[4] - a[2])
            area_b == (b[3] - b[1]) * (b[4] - b[2])
        IN /\ _check_large(a, b) <=> area_a > area_b
           /\ _check_small(a, b) <=> area_a < area_b
           /\ _check_large(a, b) <=> _check_small(b, a)
           /\ area_a # area_b => (_check_large(a, b) <=> ~_check_small(a, b))
           /\ area_a = area_b => (~_check_large(a, b) /\ ~_check_small(a, b))

\* A two-object record of the size scorer, its relation larger or smaller,
\* was scored on two different boxes of equal area and not counted true.
C20_Witness ==
    /\ scorer = "size" /\ Attempt /\ Arity = 2 /\ AllMatched
    /\ Len(Rel) = 1 /\ Rel[1] \in {"larger", "smaller"}
    /\ last.stage = "dispatch"
    /\ Len(E) = 2
    /\ E[1].cords # E[2].cords
    /\ area(E[1].cords) = area(E[2].cords)
    /\ ~ScoredTrue

(***************************************************************************)
(* Properties of the spatial predicates (specification Spec).              *)
(***************************************************************************)

\* C21: between(a, b, c) equals between(a, c, b), and holds iff
\* (right_of(a, b) and left_of(a, c)) or (left_of(a, b) and right_of(a, c))
\* or (below(a, b) and above(a, c)) or (above(a, b) and below(a, c)).
C21_BetweenSymmetric ==
    \A a \in PredBoxes : \A b \in PredBoxes : \A c \in PredBoxes :
        /\ _check_between(a, b, c) <=> _check_between(a, c, b)
        /\ _check_between(a, b, c) <=>
              \/ right_of(a, b) /\ left_of(a, c)
              \/ left_of(a, b) /\ right_of(a, c)
              \/ below(a, b) /\ above(a, c)
              \/ above(a, b) /\ below(a, c)

\* A three-object record of the spatial scorer without relation[1] was
\* scored true by the between check, on different boxes for objects 1 and
\* 2 and through a combination other than the first.
C21_Witness ==
    /\ scorer = "spatial" /\ Attempt /\ Arity = 3 /\ Len(Rel) = 1
    /\ AllMatched /\ ScoredTrue
    /\ Box(1) # Box(2)
    /\ _check_between(Box(0), Box(1), Box(2))
    /\ ~(right_of(Box(0), Box(1)) /\ left_of(Box(0), Box(2)))

\* C22: right_of(a, b) iff a.xmax > b.xmax; left_of(a, b) iff
\* a.xmin < b.xmin; above(a, b) iff a.ymin < b.ymin or a.ymax < b.ymax;
\* below(a, b) iff a.ymax > b.ymax or a.ymin > b.ymin.
C22_PairwisePredicates ==
    \A a \in PredBoxes : \A b \in PredBoxes :
        /\ _check_right(a, b) <=> a[3] > b[3]
        /\ _check_left(a, b) <=> a[1] < b[1]
        /\ _check_above(a, b) <=> (a[2] < b[2] \/ a[4] < b[4])
        /\ _check_below(a, b) <=> (a[4] > b[4] \/ a[2] > b[2])

\* A two-object record "below" of the spatial scorer was scored true on
\* boxes where only the upper edges decide: object 0 starts lower than
\* object 1 and does not end lower.
C22_Witness ==
    /\ scorer = "spatial" /\ Attempt /\ Arity = 2 /\ AllMatched
    /\ Len(Rel) = 1 /\ Rel[1] = "below"
    /\ Box(0)[2] > Box(1)[2] /\ Box(0)[4] <= Box(1)[4]
    /\ ScoredTrue

\* C27: above(a, b) holds if and only if below(b, a) holds.
C27_AboveBelowConverse ==
    \A a \in PredBoxes : \A b \in PredBoxes :
        _check_above(a, b) <=> _check_below(b, a)

\* A two-object record "above" of the spatial scorer was scored true on
\* boxes with the same upper edge, where the lower edges decide; below
\* holds the other way round.
C27_Witness ==
    /\ scorer = "spatial" /\ Attempt /\ Arity = 2 /\ AllMatched
    /\ Len(Rel) = 1 /\ Rel[1] = "above"
    /\ Box(0)[2] = Box(1)[2] /\ Box(0)[4] < Box(1)[4]
    /\ _check_below(Box(1), Box(0))
    /\ ScoredTrue

(***************************************************************************)
(* Properties of the matcher (specification Spec).                         *)
(***************************************************************************)

\* The assignment _sort_pred_obj builds from the prediction entry and the
\* object list of the record scored last.
Assignment == _sort_pred_obj(E, S.objs)

FirstOfItsClass(i) == \A j \in 0..(i - 1) : S.objs[j + 1] # S.objs[i + 1]

\* C23: the keys of the assignment are ground-truth indices; index i is a
\* key iff some prediction has class objs[i] and i is the first position of
\* that class in objs; the value at i is a prediction of class objs[i]; a
\* prediction of a class outside objs is no value of the assignment.
C23_AssignmentKeys ==
    (Attempt /\ HasEntry) =>
        /\ DOMAIN Assignment \subseteq 0..(Arity - 1)
        /\ \A i \in 0..(Arity - 1) :
              i \in DOMAIN Assignment <=>
                  /\ \E k \in 1..Len(E) : E[k].cls = S.objs[i + 1]
                  /\ FirstOfItsClass(i)
        /\ \A i \in DOMAIN Assignment :
              /\ Assignment[i].cls = S.objs[i + 1]
              /\ \E k \in 1..Len(E) : Assignment[i] = E[k]
        /\ \A k \in 1..Len(E) :
              E[k].cls \notin GtClasses =>
                  \A i \in DOMAIN Assignment : Assignment[i].cls # E[k].cls
        /\ last.stage = "dispatch" => sorted_pred_objs = Assignment

\* A record with a repeated class was matched against an entry that holds
\* every class of the record: the assignment was built and the second
\* position of the repeated class is no key.
C23_Witness ==
    /\ Attempt /\ HasEntry
    /\ last.stage = "dispatch"
    /\ Cardinality(GtClasses) < Arity
    /\ Cardinality(GtClasses) >= 2
    /\ Cardinality(DOMAIN sorted_pred_objs) = Cardinality(GtClasses)

(***************************************************************************)
(* Properties of the counting pass (specification SpecCount).              *)
(***************************************************************************)

NoCounts == [tp |-> 0, fp |-> 0, fn |-> 0]

\* C24: a record of the scored level without a prediction entry under its
\* index is skipped with a warning, adds nothing to the TP, FP and FN totals
\* and does not stop the pass.
C24_MissingEntrySkipped ==
    (scorer = "counting" /\ last.img >= 0 /\ S.level = level
       /\ last.img \notin DOMAIN pred_data)
        => /\ last.stage = "no_pred"
           /\ last.warned
           /\ totals = NoCounts
           /\ pc \in {"loop", "returned"}
           /\ img_id = last.img + 1
           /\ pc = "returned" => acc = << <<0, 1>>, <<0, 1>> >>

\* A record that expects three objects of one class and two of another has
\* no prediction entry; the pass has returned with all totals 0.
C24_Witness ==
    /\ scorer = "counting" /\ last.img >= 0 /\ S.level = level
    /\ last.img \notin DOMAIN pred_data
    /\ S.expected_n1 = 3 /\ S.expected_n2 = 2
    /\ S.expected_obj2 \notin {"", S.expected_obj1}
    /\ last.warned
    /\ totals = NoCounts
    /\ pc = "returned"

(***************************************************************************)
(* Properties of the counters of a pass (specification SpecMain).          *)
(***************************************************************************)

RelPass ==
    /\ scorer \in {"size", "spatial"}
    /\ pc \in {"loop", "returned", "aborted"}

\* The records the pass of the current level has gone through: those before
\* img_id, and the one at img_id when it raised.
SeenOfLevel ==
    {i \in 0..(IF pc = "aborted" THEN img_id ELSE img_id - 1) :
        gt_data[i + 1].level = level}

CountersInvariant ==
    RelPass =>
        /\ total_count = Cardinality(SeenOfLevel)
        /\ 0 <= true_count /\ true_count <= total_count
        /\ pc = "returned" =>
              /\ acc[2] > 0
              /\ 0 <= acc[1] /\ acc[1] <= 100 * acc[2]

ExpectedOnly(entry, g) ==
    SelectSeq(entry, LAMBDA slot :
                  slot[1][5] \in {g.expected_obj1, g.expected_obj2})

\* C26: the counts of compare_entry are non-negative; for a record of one
\* class TP + FP is the number of slots detected as that class and TP + FN
\* is the expected number; slots of a class that is not expected change
\* none of the counts.
C26_CountsConserved ==
    Compared =>
        /\ totals.tp >= 0 /\ totals.fp >= 0 /\ totals.fn >= 0
        /\ S.expected_obj2 = "" =>
              /\ totals.tp + totals.fp = Detected(E, S.expected_obj1)
              /\ totals.tp + totals.fn = S.expected_n1
        /\ LET r == compare_entry(S, ExpectedOnly(E, S))
           IN totals = [tp |-> r.tp, fp |-> r.fp, fn |-> r.fn]

\* A record of one class expects three; the entry has two slots of that
\* class and two of a class that is not expected: the counts are 2, 0, 1.
C26_Witness ==
    /\ Compared
    /\ S.expected_obj2 = "" /\ S.expected_n1 = 3
    /\ Detected(E, S.expected_obj1) = 2
    /\ Len(E) = 4
    /\ totals = [tp |-> 2, fp |-> 0, fn |-> 1]

\* The position in the entry of the last prediction of class c.
LastOfClass(c) ==
    CHOOSE k \in 1..Len(E) :
        /\ E[k].cls = c
        /\ \A j \in (k + 1)..Len(E) : E[j].cls # c

\* C28: of several predictions of one class the assignment keeps exactly
\* one, at the class's ground-truth index: the one visited last.
C28_LastWriteWins ==
    (Attempt /\ HasEntry) =>
        /\ \A i \in DOMAIN Assignment :
              Assignment[i] = E[LastOfClass(S.objs[i + 1])]
        /\ \A c \in PredClasses \cap GtClasses :
              Cardinality({i \in DOMAIN Assignment :
                              Assignment[i].cls = c}) = 1
        /\ last.stage = "dispatch" => sorted_pred_objs = Assignment

\* The entry has two predictions of the first object's class with different
\* boxes; the assignment that was built holds the later one.
C28_Witness ==
    /\ Attempt /\ HasEntry /\ last.stage = "dispatch"
    /\ \E j \in 1..Len(E) : \E k \in (j + 1)..Len(E) :
          /\ E[j].cls = S.objs[1] /\ E[k].cls = S.objs[1]
          /\ E[j].cords # E[k].cords
          /\ k = LastOfClass(S.objs[1])
          /\ sorted_pred_objs[0] = E[k]

ColorPass == scorer = "color" /\ pc \in {"loop", "returned", "aborted"}

\* The number of objects of the records of the current level among the
\* first n records.
RECURSIVE ObjectsOfLevel(_)
ObjectsOfLevel(n) ==
    IF n = 0 THEN 0
    ELSE ObjectsOfLevel(n - 1)
         + (IF gt_data[n].level = level THEN Len(gt_data[n].objs) ELSE 0)

\* The record at img_id is of the current level and its image cannot be
\* read or has no masks.
SkippedNext ==
    /\ img_id < Len(gt_data)
    /\ gt_data[img_id + 1].level = level
    /\ (~images[img_id].readable \/ pred_data[img_id] = <<>>)

\* C29: the denominator of the color scorer counts objects: every record of
\* the level adds its number of objects, also when its image cannot be read
\* or has no masks, and such a record adds nothing to the matched count;
\* the matched count never exceeds the denominator.
C29_ObjectDenominator ==
    /\ [](ColorPass => /\ total_count = ObjectsOfLevel(img_id)
                       /\ 0 <= true_count /\ true_count <= total_count)
    /\ [][(ColorRecord /\ SkippedNext)
             => /\ total_count' = total_count + Len(gt_data[img_id + 1].objs)
                /\ true_count' = true_count]_vars

\* A pass went through two records of its level, the first with an image
\* that cannot be read and masks in the directory, the second scored with
\* both objects matched: 2 of 4.
C29_Witness ==
    /\ ColorPass /\ img_id = 2
    /\ gt_data[1].level = level /\ gt_data[2].level = level
    /\ ~images[0].readable /\ pred_data[0] # <<>>
    /\ total_count = 4 /\ true_count = 2
    /\ pc = "returned"

(***************************************************************************)
(* Properties of the mask lists (specification SpecMain).                  *)
(***************************************************************************)

\* The name of the image of record idx.
NameOfImage(idx) ==
    ImgName(idx, gt_data[idx + 1].level, gt_data[idx + 1].prompt)

\* The mask name begins with the name of image idx: the file was written
\* for that image.
NamedFor(n, idx) ==
    /\ Len(n) >= Len(NameOfImage(idx))
    /\ SubSeq(n, 1, Len(NameOfImage(idx))) = NameOfImage(idx)

\* C30 (as claimed): a mask file named for image i is never in the mask
\* list of a different image j.
C30_MasksOfOneImage ==
    scorer = "color" =>
        \A i \in DOMAIN pred_data : \A j \in DOMAIN pred_data :
            i # j =>
                \A k \in 1..Len(pred_data[j]) :
                    ~NamedFor(pred_data[j][k], i)

====
